---- MODULE Spec2Model ----
(***************************************************************************)
(* Model of the RFC 6464 (Client-to-Mixer Audio Level Indication) RTP      *)
(* header extension, gstrtphdrext-rfc6464.c.                               *)
(*                                                                         *)
(* The object has one field, self->vad.  Its virtual methods are called    *)
(* synchronously, one at a time, by the payloader / depayloader that owns  *)
(* it.  A state of the model is the object's field together with the call  *)
(* that was made last: its arguments as passed (call) and what it handed   *)
(* back (result: the return value, the bytes of the data buffer after the  *)
(* call, the audio level metas on the output buffer after the call, the    *)
(* "vad" notification, the attribute text given to the caps helper).       *)
(*                                                                         *)
(* Conventions:                                                            *)
(*   - a gboolean / gssize return value is the C integer (TRUE = 1,        *)
(*     FALSE = 0), so that a return of -1 from a gboolean function stays   *)
(*     visible; the gboolean fields vad and voice_activity are BOOLEAN;    *)
(*   - GstRTPHeaderExtensionFlags is a bit mask of independent bits and is *)
(*     modelled as the set of the bits that are set; a & b is a \cap b;    *)
(*   - data is the function [0 .. size-1 -> 0 .. 255] (C indices);         *)
(*   - a GstBuffer is the sequence of the GstAudioLevelMeta attached to it *)
(*     (all that this file reads from or adds to a buffer).                *)
(*   - g_return_val_if_fail is the check it is in a default build: it      *)
(*     returns the given value when its condition is false;                *)
(*   - a method is called when no call is pending (Idle), and Return is    *)
(*     the caller taking the result: the calls are sequential, and each    *)
(*     starts from nothing but the object's field.                         *)
(***************************************************************************)
EXTENDS Integers, Sequences, FiniteSets

VARIABLES vad, lastAttr, call, result

vars == <<vad, lastAttr, call, result>>

(***************************************************************************)
(* Bounds and input domains                                                *)
(***************************************************************************)

\* Largest size of the data area handed to write and read.
MaxSize == 3

\* guint8
Byte == 0 .. 255

\* Contents a data area holds, byte for byte, before write is called, and
\* the contents of the padding after byte 0 that read is given.
FillBytes == {0, 165}

\* Attribute texts handed to set_attributes.
Attributes == {"", "vad=on", "vad=off", "garbage", "vad=ON", "vad", "vad=on "}

\* No successful set_attributes call yet (lastAttr is a history variable:
\* the attributes of the most recent call that returned TRUE).
NoAttr == "(none)"

\* GstAudioLevelMeta: guint8 level, gboolean voice_activity.
AudioLevelMetas == [level : Byte, voice_activity : BOOLEAN]

\* The buffers given to write as input_meta: with or without a meta.
InputBuffers == {<<>>} \cup {<<m>> : m \in AudioLevelMetas}

\* The buffers given to read: without a meta yet, or with one from upstream.
OutputBuffers == {<<>>, <<[level |-> 5, voice_activity |-> TRUE]>>}

DataAreas(size) ==
    {[i \in 0 .. size - 1 |-> f] : f \in FillBytes}

WireAreas(size) ==
    {[i \in 0 .. size - 1 |-> IF i = 0 THEN b ELSE f] :
        b \in Byte, f \in FillBytes}

(***************************************************************************)
(* C operators on unsigned integers                                        *)
(***************************************************************************)

RECURSIVE BitAnd(_, _)
BitAnd(a, b) ==
    IF a = 0 \/ b = 0 THEN 0
    ELSE (a % 2) * (b % 2) + 2 * BitAnd(a \div 2, b \div 2)

RECURSIVE BitOr(_, _)
BitOr(a, b) ==
    IF a = 0 THEN b
    ELSE IF b = 0 THEN a
    ELSE (IF a % 2 = 1 \/ b % 2 = 1 THEN 1 ELSE 0)
         + 2 * BitOr(a \div 2, b \div 2)

RECURSIVE ShiftLeft(_, _)
ShiftLeft(a, n) == IF n = 0 THEN a ELSE ShiftLeft(2 * a, n - 1)

RECURSIVE ShiftRight(_, _)
ShiftRight(a, n) == IF n = 0 THEN a ELSE ShiftRight(a \div 2, n - 1)

\* A gboolean used as an int.
BoolToInt(b) == IF b THEN 1 ELSE 0

\* Storing an int into a guint8.
ToGuint8(x) == x % 256

(***************************************************************************)
(* The last call                                                           *)
(***************************************************************************)

NoCall ==
    [op |-> "idle", attributes |-> "", input_meta |-> <<>>, flags |-> {},
     data |-> <<>>, size |-> 0, buffer |-> <<>>]

NoResult ==
    [ret |-> 0, notify |-> FALSE, attributes |-> "", flags |-> {},
     data |-> <<>>, buffer |-> <<>>]

(***************************************************************************)
(* The object                                                              *)
(***************************************************************************)

DEFAULT_VAD == TRUE

GST_RTP_HEADER_EXTENSION_ONE_BYTE == {"ONE_BYTE"}

GST_RTP_HEADER_EXTENSION_TWO_BYTE == {"TWO_BYTE"}

WriteFlags == SUBSET (GST_RTP_HEADER_EXTENSION_ONE_BYTE
                      \cup GST_RTP_HEADER_EXTENSION_TWO_BYTE)

gst_rtp_header_extension_rfc6464_get_supported_flags(ext) ==
    GST_RTP_HEADER_EXTENSION_ONE_BYTE \cup GST_RTP_HEADER_EXTENSION_TWO_BYTE

gst_rtp_header_extension_rfc6464_get_max_size(ext, input_meta) == 2

gst_rtp_header_extension_rfc6464_get_property(ext) == ext.vad

\* set_vad without the early return on an unchanged value.
set_vad_NotifyAlways(ext, v) ==
    [vad |-> v, notify |-> TRUE]

\* set_vad, with the notification it emits: [vad, notify].
set_vad(ext, v) ==
    IF ext.vad = v
    THEN [vad |-> ext.vad, notify |-> FALSE]
    ELSE [vad |-> v, notify |-> TRUE]

\* set_attributes without the return FALSE of the last branch.
set_attributes_NoReturnFalse(ext, attributes) ==
    IF attributes = "vad=on" \/ attributes = ""
    THEN LET s == set_vad(ext, TRUE)
         IN  [ret |-> 1, vad |-> s.vad, notify |-> s.notify]
    ELSE IF attributes = "vad=off"
    THEN LET s == set_vad(ext, FALSE)
         IN  [ret |-> 1, vad |-> s.vad, notify |-> s.notify]
    ELSE [ret |-> 1, vad |-> ext.vad, notify |-> FALSE]

\* set_attributes with the empty text taken as "vad=off".
set_attributes_EmptyIsOff(ext, attributes) ==
    IF attributes = "vad=on"
    THEN LET s == set_vad(ext, TRUE)
         IN  [ret |-> 1, vad |-> s.vad, notify |-> s.notify]
    ELSE IF attributes = "vad=off" \/ attributes = ""
    THEN LET s == set_vad(ext, FALSE)
         IN  [ret |-> 1, vad |-> s.vad, notify |-> s.notify]
    ELSE [ret |-> 0, vad |-> ext.vad, notify |-> FALSE]

\* [ret, vad, notify]
gst_rtp_header_extension_rfc6464_set_attributes(ext, attributes) ==
    IF attributes = "vad=on" \/ attributes = ""
    THEN LET s == set_vad(ext, TRUE)
         IN  [ret |-> 1, vad |-> s.vad, notify |-> s.notify]
    ELSE IF attributes = "vad=off"
    THEN LET s == set_vad(ext, FALSE)
         IN  [ret |-> 1, vad |-> s.vad, notify |-> s.notify]
    ELSE [ret |-> 0, vad |-> ext.vad, notify |-> FALSE]

\* The attribute text handed to
\* gst_rtp_header_extension_set_caps_from_attributes_helper.
gst_rtp_header_extension_rfc6464_set_caps_from_attributes(ext) ==
    IF ext.vad THEN "vad=on" ELSE "vad=off"

\* write clearing the two bytes before it looks for the meta.
write_ClearsFirst(ext, input_meta, write_flags, data, size) ==
    IF ~(size >= gst_rtp_header_extension_rfc6464_get_max_size(ext, <<>>))
    THEN [ret |-> -1, data |-> data]
    ELSE IF write_flags
            \cap gst_rtp_header_extension_rfc6464_get_supported_flags(ext) = {}
    THEN [ret |-> -1, data |-> data]
    ELSE IF Len(input_meta) = 0
    THEN [ret |-> 0, data |-> [data EXCEPT ![0] = 0, ![1] = 0]]
    ELSE
      LET meta == input_meta[1]
          byte0 == ToGuint8(BitOr(BitAnd(meta.level, 127),
                                  ShiftLeft(BoolToInt(meta.voice_activity), 7)))
      IN  IF write_flags \cap GST_RTP_HEADER_EXTENSION_ONE_BYTE # {}
          THEN [ret |-> 1, data |-> [data EXCEPT ![0] = byte0]]
          ELSE [ret |-> 2, data |-> [data EXCEPT ![0] = byte0, ![1] = 0]]

\* write storing the padding byte before it tests for the one-byte form.
write_PadsAlways(ext, input_meta, write_flags, data, size) ==
    IF ~(size >= gst_rtp_header_extension_rfc6464_get_max_size(ext, <<>>))
    THEN [ret |-> -1, data |-> data]
    ELSE IF write_flags
            \cap gst_rtp_header_extension_rfc6464_get_supported_flags(ext) = {}
    THEN [ret |-> -1, data |-> data]
    ELSE IF Len(input_meta) = 0
    THEN [ret |-> 0, data |-> data]
    ELSE
      LET meta == input_meta[1]
          byte0 == ToGuint8(BitOr(BitAnd(meta.level, 127),
                                  ShiftLeft(BoolToInt(meta.voice_activity), 7)))
      IN  IF write_flags \cap GST_RTP_HEADER_EXTENSION_ONE_BYTE # {}
          THEN [ret |-> 1, data |-> [data EXCEPT ![0] = byte0, ![1] = 0]]
          ELSE [ret |-> 2, data |-> [data EXCEPT ![0] = byte0, ![1] = 0]]

\* write sending the voice activity bit only when vad was negotiated.
write_VadGated(ext, input_meta, write_flags, data, size) ==
    IF ~(size >= gst_rtp_header_extension_rfc6464_get_max_size(ext, <<>>))
    THEN [ret |-> -1, data |-> data]
    ELSE IF write_flags
            \cap gst_rtp_header_extension_rfc6464_get_supported_flags(ext) = {}
    THEN [ret |-> -1, data |-> data]
    ELSE IF Len(input_meta) = 0
    THEN [ret |-> 0, data |-> data]
    ELSE
      LET meta == input_meta[1]
          byte0 == ToGuint8(BitOr(BitAnd(meta.level, 127),
                      ShiftLeft(BoolToInt(ext.vad /\ meta.voice_activity), 7)))
      IN  IF write_flags \cap GST_RTP_HEADER_EXTENSION_ONE_BYTE # {}
          THEN [ret |-> 1, data |-> [data EXCEPT ![0] = byte0]]
          ELSE [ret |-> 2, data |-> [data EXCEPT ![0] = byte0, ![1] = 0]]

\* [ret, data]
gst_rtp_header_extension_rfc6464_write(ext, input_meta, write_flags, data, size) ==
    IF ~(size >= gst_rtp_header_extension_rfc6464_get_max_size(ext, <<>>))
    THEN [ret |-> -1, data |-> data]
    ELSE IF write_flags
            \cap gst_rtp_header_extension_rfc6464_get_supported_flags(ext) = {}
    THEN [ret |-> -1, data |-> data]
    ELSE IF Len(input_meta) = 0
    THEN [ret |-> 0, data |-> data]
    ELSE
      LET meta == input_meta[1]
          \* the cropped level: assigned, logged about, and not read again
          level == IF meta.level > 127 THEN 127 ELSE meta.level
          byte0 == ToGuint8(BitOr(BitAnd(meta.level, 127),
                                  ShiftLeft(BoolToInt(meta.voice_activity), 7)))
      IN  IF write_flags \cap GST_RTP_HEADER_EXTENSION_ONE_BYTE # {}
          THEN [ret |-> 1, data |-> [data EXCEPT ![0] = byte0]]
          ELSE [ret |-> 2, data |-> [data EXCEPT ![0] = byte0, ![1] = 0]]

\* read with the level mask one bit short.
read_Mask3F(ext, read_flags, data, size, buffer) ==
    IF read_flags
       \cap gst_rtp_header_extension_rfc6464_get_supported_flags(ext) = {}
    THEN [ret |-> -1, buffer |-> buffer]
    ELSE
      LET level == BitAnd(data[0], 63)
          voice_activity == ShiftRight(BitAnd(data[0], 128), 7)
      IN  [ret |-> 1,
           buffer |-> Append(buffer, [level |-> level,
                                      voice_activity |-> voice_activity # 0])]

\* read taking the last byte of the data instead of the first.
read_LastByte(ext, read_flags, data, size, buffer) ==
    IF read_flags
       \cap gst_rtp_header_extension_rfc6464_get_supported_flags(ext) = {}
    THEN [ret |-> -1, buffer |-> buffer]
    ELSE
      LET level == BitAnd(data[size - 1], 127)
          voice_activity == ShiftRight(BitAnd(data[size - 1], 128), 7)
      IN  [ret |-> 1,
           buffer |-> Append(buffer, [level |-> level,
                                      voice_activity |-> voice_activity # 0])]

\* [ret, buffer]
gst_rtp_header_extension_rfc6464_read(ext, read_flags, data, size, buffer) ==
    IF read_flags
       \cap gst_rtp_header_extension_rfc6464_get_supported_flags(ext) = {}
    THEN [ret |-> -1, buffer |-> buffer]
    ELSE
      LET level == BitAnd(data[0], 127)
          voice_activity == ShiftRight(BitAnd(data[0], 128), 7)
      IN  [ret |-> 1,
           buffer |-> Append(buffer, [level |-> level,
                                      voice_activity |-> voice_activity # 0])]

\* gst_rtp_header_extension_rfc6464_init
Init ==
    /\ vad = DEFAULT_VAD
    /\ lastAttr = NoAttr
    /\ call = NoCall
    /\ result = NoResult

self == [vad |-> vad]

Idle == call.op = "idle"

set_attributes ==
    /\ Idle
    /\ \E attributes \in Attributes :
         LET r == gst_rtp_header_extension_rfc6464_set_attributes(self, attributes)
         IN  /\ vad' = r.vad
             /\ lastAttr' = IF r.ret # 0 THEN attributes ELSE lastAttr
             /\ call' = [NoCall EXCEPT !.op = "set_attributes",
                                       !.attributes = attributes]
             /\ result' = [NoResult EXCEPT !.ret = r.ret, !.notify = r.notify]

set_caps_from_attributes ==
    /\ Idle
    /\ call' = [NoCall EXCEPT !.op = "set_caps_from_attributes"]
    /\ result' = [NoResult EXCEPT !.attributes =
           gst_rtp_header_extension_rfc6464_set_caps_from_attributes(self)]
    /\ UNCHANGED <<vad, lastAttr>>

get_supported_flags ==
    /\ Idle
    /\ call' = [NoCall EXCEPT !.op = "get_supported_flags"]
    /\ result' = [NoResult EXCEPT !.flags =
           gst_rtp_header_extension_rfc6464_get_supported_flags(self)]
    /\ UNCHANGED <<vad, lastAttr>>

get_max_size ==
    /\ Idle
    /\ \E input_meta \in {<<>>, <<[level |-> 5, voice_activity |-> TRUE]>>} :
         /\ call' = [NoCall EXCEPT !.op = "get_max_size",
                                   !.input_meta = input_meta]
         /\ result' = [NoResult EXCEPT !.ret =
                gst_rtp_header_extension_rfc6464_get_max_size(self, input_meta)]
    /\ UNCHANGED <<vad, lastAttr>>

get_property ==
    /\ Idle
    /\ call' = [NoCall EXCEPT !.op = "get_property"]
    /\ result' = [NoResult EXCEPT !.ret =
           BoolToInt(gst_rtp_header_extension_rfc6464_get_property(self))]
    /\ UNCHANGED <<vad, lastAttr>>

write ==
    /\ Idle
    /\ \E input_meta \in InputBuffers, write_flags \in WriteFlags,
          size \in 1 .. MaxSize :
         \E data \in DataAreas(size) :
           LET r == gst_rtp_header_extension_rfc6464_write(
                        self, input_meta, write_flags, data, size)
           IN  /\ call' = [NoCall EXCEPT !.op = "write",
                                         !.input_meta = input_meta,
                                         !.flags = write_flags,
                                         !.data = data,
                                         !.size = size]
               /\ result' = [NoResult EXCEPT !.ret = r.ret, !.data = r.data]
    /\ UNCHANGED <<vad, lastAttr>>

read ==
    /\ Idle
    /\ \E read_flags \in WriteFlags, size \in 1 .. MaxSize,
          buffer \in OutputBuffers :
         \E data \in WireAreas(size) :
           LET r == gst_rtp_header_extension_rfc6464_read(
                        self, read_flags, data, size, buffer)
           IN  /\ call' = [NoCall EXCEPT !.op = "read",
                                         !.flags = read_flags,
                                         !.data = data,
                                         !.size = size,
                                         !.buffer = buffer]
               /\ result' = [NoResult EXCEPT !.ret = r.ret,
                                             !.buffer = r.buffer]
    /\ UNCHANGED <<vad, lastAttr>>

\* The caller takes the result; the object is ready for the next call.
Return ==
    /\ ~Idle
    /\ call' = NoCall
    /\ result' = NoResult
    /\ UNCHANGED <<vad, lastAttr>>

Next ==
    \/ set_attributes
    \/ set_caps_from_attributes
    \/ get_supported_flags
    \/ get_max_size
    \/ get_property
    \/ write
    \/ read
    \/ Return

Spec == Init /\ [][Next]_vars

(***************************************************************************)
(* Properties                                                              *)
(***************************************************************************)

SupportedForms ==
    GST_RTP_HEADER_EXTENSION_ONE_BYTE \cup GST_RTP_HEADER_EXTENSION_TWO_BYTE

\* The last call was write, with the preconditions met and a meta present.
Encoded ==
    /\ call.op = "write"
    /\ call.size >= 2
    /\ call.flags \cap SupportedForms # {}
    /\ Len(call.input_meta) = 1

\* Byte 0 for (level, voice_activity), level in 0 .. 127.
WireByte(level, voice_activity) ==
    level + (IF voice_activity THEN 128 ELSE 0)

\* C1: for every level in 128 .. 255, every voice_activity and either
\* requested form, write stores in byte 0 what it stores for level 127 with
\* the same voice_activity: 0x7F, plus 0x80 when voice_activity is set.
C1_ClampedByte0 ==
    (Encoded /\ call.input_meta[1].level \in 128 .. 255)
        => result.data[0] = WireByte(127, call.input_meta[1].voice_activity)

\* C2: for every level in 0 .. 127 and every voice_activity, the bytes write
\* has written, in either form, read back under either read form and in
\* either vad state, attach a meta equal to the original.
C2_RoundTrip ==
    (Encoded /\ call.input_meta[1].level \in 0 .. 127)
        => LET written == [i \in 0 .. result.ret - 1 |-> result.data[i]]
           IN  \A read_flags \in SUBSET SupportedForms \ {{}},
                  v \in BOOLEAN, buffer \in OutputBuffers :
                 LET r == gst_rtp_header_extension_rfc6464_read(
                              [vad |-> v], read_flags, written, result.ret,
                              buffer)
                 IN  /\ r.ret = 1
                     /\ r.buffer = Append(buffer, call.input_meta[1])

C2_Witness ==
    /\ Encoded
    /\ call.input_meta[1] = [level |-> 42, voice_activity |-> TRUE]
    /\ call.flags = GST_RTP_HEADER_EXTENSION_ONE_BYTE
    /\ result.ret = 1
    /\ result.data[0] = 170
    /\ ~vad

\* C3: in any reachable state, set_attributes with a text other than "",
\* "vad=on" and "vad=off" returns FALSE and leaves vad as it was before the
\* call.
C3_InvalidAttributeKeepsVad ==
    [][(call'.op = "set_attributes"
        /\ call'.attributes \notin {"", "vad=on", "vad=off"})
           => (result'.ret = 0 /\ vad' = vad)]_vars

C3_Witness ==
    /\ call.op = "set_attributes"
    /\ call.attributes = "garbage"
    /\ result.ret = 0
    /\ lastAttr = "vad=off"
    /\ ~vad

\* The text the claim expects to be advertised after the successful calls
\* so far.
Advertised(last) ==
    CASE last = NoAttr -> "vad=on"
      [] last = ""     -> "vad=on"
      [] OTHER         -> last

C5_UnsupportedReadFails ==
    (call.op = "read" /\ call.flags \cap SupportedForms = {})
        => (result.ret = 0 /\ result.buffer = call.buffer)

\* C6: with no audio level meta on the frame and the preconditions met
\* (size >= 2, a supported form requested), write returns 0 and every byte
\* of the data area keeps its value, for either form and either vad state.
C6_NoMetaWritesNothing ==
    (/\ call.op = "write"
     /\ call.size >= 2
     /\ call.flags \cap SupportedForms # {}
     /\ Len(call.input_meta) = 0)
        => (result.ret = 0 /\ result.data = call.data)

C6_Witness ==
    /\ call.op = "write"
    /\ call.size = 3
    /\ call.flags = GST_RTP_HEADER_EXTENSION_TWO_BYTE
    /\ Len(call.input_meta) = 0
    /\ call.data[0] = 165
    /\ result.ret = 0
    /\ ~vad

\* C7: for a meta with level in 0 .. 127, write stores
\* level | (voice_activity ? 0x80 : 0) in byte 0; with the one-byte form
\* among the requested forms it returns 1 and leaves byte 1 as it was,
\* otherwise it stores 0 in byte 1 and returns 2.  The returned count never
\* exceeds get_max_size = 2.
C7_WireFormat ==
    /\ (Encoded /\ call.input_meta[1].level \in 0 .. 127)
          => /\ result.data[0] = WireByte(call.input_meta[1].level,
                                          call.input_meta[1].voice_activity)
             /\ IF call.flags \cap GST_RTP_HEADER_EXTENSION_ONE_BYTE # {}
                THEN result.ret = 1 /\ result.data[1] = call.data[1]
                ELSE result.ret = 2 /\ result.data[1] = 0
    /\ call.op = "write" => result.ret <= 2
    /\ call.op = "get_max_size" => result.ret = 2

C7_Witness ==
    /\ Encoded
    /\ call.input_meta[1] = [level |-> 42, voice_activity |-> FALSE]
    /\ call.flags = SupportedForms
    /\ call.data[1] = 165
    /\ result.ret = 1
    /\ result.data[0] = 42
    /\ result.data[1] = 165

\* C8: for every byte b in 0 .. 255, read with a supported form succeeds and
\* adds exactly one meta, with level = b & 0x7F and
\* voice_activity = ((b & 0x80) != 0); a padding byte after b has no
\* influence.
C8_DecodeAnyByte ==
    (call.op = "read" /\ call.flags \cap SupportedForms # {})
        => LET b == call.data[0]
           IN  /\ result.ret = 1
               /\ result.buffer =
                      Append(call.buffer, [level |-> b % 128,
                                           voice_activity |-> b >= 128])

C8_Witness ==
    /\ call.op = "read"
    /\ call.size = 2
    /\ call.data[0] = 133
    /\ call.data[1] = 165
    /\ call.buffer # <<>>
    /\ result.ret = 1
    /\ Len(result.buffer) = 2
    /\ result.buffer[2] = [level |-> 5, voice_activity |-> TRUE]

\* C9: vad has no influence on the wire codec: an object that differs only
\* in vad, given the arguments of the last write (read), returns the same
\* count and bytes (the same result and metas).
C9_VadDoesNotAffectCodec ==
    /\ call.op = "write"
          => \A v \in BOOLEAN :
               gst_rtp_header_extension_rfc6464_write(
                   [vad |-> v], call.input_meta, call.flags, call.data,
                   call.size)
               = [ret |-> result.ret, data |-> result.data]
    /\ call.op = "read"
          => \A v \in BOOLEAN :
               gst_rtp_header_extension_rfc6464_read(
                   [vad |-> v], call.flags, call.data, call.size, call.buffer)
               = [ret |-> result.ret, buffer |-> result.buffer]

C9_Witness ==
    /\ Encoded
    /\ ~vad
    /\ call.input_meta[1].voice_activity
    /\ result.ret = 2
    /\ result.data[0] >= 128

\* C10: vad changes only in a step that is a successful set_attributes
\* call; a successful set_attributes whose text maps to the current value
\* leaves vad as it is and emits no notification.
C10_VadChangesOnlyByConfigure ==
    [][/\ vad' # vad
            => (call'.op = "set_attributes" /\ result'.ret # 0)
       /\ (/\ call'.op = "set_attributes"
           /\ result'.ret # 0
           /\ vad <=> (call'.attributes \in {"vad=on", ""}))
            => (vad' = vad /\ ~result'.notify)]_vars

C10_Witness ==
    /\ call.op = "set_attributes"
    /\ call.attributes = "vad=off"
    /\ result.ret = 1
    /\ ~result.notify
    /\ ~vad

====
